---------------------------- MODULE Spec2Model ----------------------------
(***************************************************************************)
(* Model of the questionnaire scoring engine of the ASD detection backend  *)
(* (computeScore in the assessments route), of the request handlers that   *)
(* store and review assessments, of the game-session handlers, of the      *)
(* access routes (request, respond, grant, revoke) with their calls        *)
(* interleaved at every await, and of the earlier POST /add that waits for *)
(* an LLM analysis.                                                        *)
(*                                                                         *)
(* JavaScript strings are sequences of one-character strings, so that      *)
(* toLowerCase, the numeric-prefix regular expression and Number() are     *)
(* computed character by character.  A JavaScript value is a record        *)
(* [type, str, num] (typeof-like tag, string payload, number payload).     *)
(***************************************************************************)
EXTENDS Integers, Sequences, FiniteSets, Bags, TLC

VARIABLES
    answers,        \* Object.values(answers || {}): the submitted answer values
    questionnaire,  \* the Questionnaire document: answerOptions, scoringRules
    pc,             \* "call" before computeScore runs, "done" after it returned
    scoreMap,       \* the local scoreMap of the multi-choice branch (empty otherwise)
    result,         \* the returned { score, risk }
    questionnaires, \* the Questionnaire collection
    assessments,    \* the Assessment collection, in order of creation
    reports,        \* the Report collection, in order of creation
    request,        \* the request being served: route, user, params and body
    response,       \* the response sent to it: status and error message
    session,        \* the GameSession document of the game being played
    children,       \* the Child collection
    accessRequests, \* the AccessRequest collection, in order of creation
    calls,          \* the bag of access-route handlers in flight, each suspended at an await
    addCall         \* the LLM-assisted POST /add in flight: its promises and responses

accessVars == <<children, accessRequests, calls, addCall>>

storeVars == <<questionnaires, assessments, reports, request, response, session, accessVars>>

vars == <<answers, questionnaire, pc, scoreMap, result,
          questionnaires, assessments, reports, request, response, session,
          children, accessRequests, calls, addCall>>

-----------------------------------------------------------------------------
(* Bounds of the model *)

MaxAnswers == 2
MaxOptions == 3
MaxRules == 3
MaxRawScore == 8
MaxLegacyAnswers == 3
MaxAssessments == 2
MaxReports == 1
MaxFlips == 3
MaxCalls == 2
MaxRequests == 2

-----------------------------------------------------------------------------
(* JavaScript values and strings *)

JsString(s) == [type |-> "string", str |-> s, num |-> 0]
JsNumber(n) == [type |-> "number", str |-> <<>>, num |-> n]
JsNull == [type |-> "null", str |-> <<>>, num |-> 0]
JsUndefined == [type |-> "undefined", str |-> <<>>, num |-> 0]
JsBool(b) == [type |-> "boolean", str |-> <<>>, num |-> IF b THEN 1 ELSE 0]
\* a plain (nested) object such as { a: 1 }
JsObject == [type |-> "object", str |-> <<>>, num |-> 0]
\* an array, with str the string it converts to ([3] converts to "3")
JsArray(s) == [type |-> "array", str |-> s, num |-> 0]

\* ToBoolean(v), as in (a || '')
Truthy(v) ==
    CASE v.type = "string" -> Len(v.str) > 0
      [] v.type = "number" -> v.num # 0
      [] v.type = "boolean" -> v.num = 1
      [] v.type \in {"object", "array"} -> TRUE
      [] OTHER -> FALSE

\* v.toLowerCase() raises a TypeError unless v is a string
toLowerCaseThrows(v) == v.type # "string"

UpperLetters == <<"A","B","C","D","E","F","G","H","I","J","K","L","M",
                  "N","O","P","Q","R","S","T","U","V","W","X","Y","Z">>
LowerLetters == <<"a","b","c","d","e","f","g","h","i","j","k","l","m",
                  "n","o","p","q","r","s","t","u","v","w","x","y","z">>
DigitChars == <<"0","1","2","3","4","5","6","7","8","9">>
WhiteSpace == {" ", "\t"}

Min(S) == CHOOSE x \in S : \A y \in S : x <= y
Max(S) == CHOOSE x \in S : \A y \in S : x >= y
Range(f) == {f[i] : i \in DOMAIN f}
SeqUpTo(S, n) == UNION {[1..k -> S] : k \in 0..n}

LowerChar(c) ==
    IF \E i \in 1..26 : UpperLetters[i] = c
    THEN LowerLetters[CHOOSE i \in 1..26 : UpperLetters[i] = c]
    ELSE c

\* String.prototype.toLowerCase
toLowerCase(s) == [i \in 1..Len(s) |-> LowerChar(s[i])]

IsDigit(c) == \E d \in 1..10 : DigitChars[d] = c
DigitVal(c) == (CHOOSE d \in 1..10 : DigitChars[d] = c) - 1

\* Number("<digits>"): the decimal value of a run of digits
RECURSIVE DigitsToNumber(_)
DigitsToNumber(ds) ==
    IF Len(ds) = 0 THEN 0
    ELSE 10 * DigitsToNumber(SubSeq(ds, 1, Len(ds) - 1)) + DigitVal(ds[Len(ds)])

\* first index j >= i of s whose character is not in set C (Len(s)+1 if none)
SkipWhile(s, i, C) ==
    LET stop == {j \in i..Len(s) : s[j] \notin C}
    IN  IF stop = {} THEN Len(s) + 1 ELSE Min(stop)

DigitSet == Range(DigitChars)

\* opt.match(/^\s*(\d+)\s+/): optional white space, a maximal run of at least
\* one digit (the capture), at least one white space character
matchNumericPrefix(opt) ==
    LET a == SkipWhile(opt, 1, WhiteSpace)
        b == SkipWhile(opt, a, DigitSet)
    IN  IF b > a /\ b <= Len(opt) /\ opt[b] \in WhiteSpace
        THEN [matched |-> TRUE, digits |-> SubSeq(opt, a, b - 1)]
        ELSE [matched |-> FALSE, digits |-> <<>>]

\* String.prototype.trim, for the white space of the model
TrimString(s) ==
    LET keep == {j \in 1..Len(s) : s[j] \notin WhiteSpace}
    IN  IF keep = {} THEN <<>> ELSE SubSeq(s, Min(keep), Max(keep))

NaN == [finite |-> FALSE, val |-> 0]
Finite(n) == [finite |-> TRUE, val |-> n]

\* Number(string) for the integer literals of StringNumericLiteral: white
\* space is trimmed, the empty string is 0, an optional sign and decimal
\* digits give the integer, anything else is NaN.  (Fractions, exponents, hex
\* literals and "Infinity" are not among the strings of the model.)
StringToNumber(s) ==
    LET t == TrimString(s)
        signed == Len(t) > 0 /\ t[1] \in {"+", "-"}
        ds == IF signed THEN SubSeq(t, 2, Len(t)) ELSE t
    IN  IF Len(t) = 0 THEN Finite(0)
        ELSE IF Len(ds) > 0 /\ \A j \in 1..Len(ds) : IsDigit(ds[j])
        THEN Finite(IF signed /\ t[1] = "-" THEN 0 - DigitsToNumber(ds)
                                             ELSE DigitsToNumber(ds))
        ELSE NaN

\* Number(v)
ToNumber(v) ==
    CASE v.type = "string" -> StringToNumber(v.str)
      [] v.type = "number" -> Finite(v.num)
      [] v.type = "null" -> Finite(0)
      [] v.type = "boolean" -> Finite(v.num)
      [] v.type = "array" -> StringToNumber(v.str)
      [] OTHER -> NaN

-----------------------------------------------------------------------------
(* computeScore *)

YES == <<"y","e","s">>
NO == <<"n","o">>

\* the predicate of answerValues.every(...)
IsYesNoAnswer(v) ==
    v.type = "string" /\ (toLowerCase(v.str) = YES \/ toLowerCase(v.str) = NO)

\* faulty variant of IsYesNoAnswerThrows: toLowerCase called with no typeof test before it
IsYesNoAnswerThrows_NoTypeofTest(v) == toLowerCaseThrows(v)

\* the predicate of answerValues.every(...) raises: typeof v === 'string' && v.toLowerCase()
IsYesNoAnswerThrows(v) == v.type = "string" /\ toLowerCaseThrows(v)

\* (a || '')
OrEmpty(a) == IF Truthy(a) THEN a ELSE JsString(<<>>)

\* the predicate of answerValues.filter(...) raises: (a || '').toLowerCase()
IsYesAnswerThrows(a) == toLowerCaseThrows(OrEmpty(a))

\* (a || ''): a falsy value becomes the empty string.  Only strings reach it,
\* the every() test having passed.
OrEmptyString(a) == IF a.type = "string" THEN a.str ELSE <<>>

\* the predicate of answerValues.filter(...)
IsYesAnswer(a) == toLowerCase(OrEmptyString(a)) = YES

\* faulty variant of CountYes: the filter compares with 'yes' as written (a === 'yes')
CountYes_ExactLowercase(values) ==
    Cardinality({i \in 1..Len(values) :
                    values[i].type = "string" /\ values[i].str = YES})

\* answerValues.filter(...).length
CountYes(values) == Cardinality({i \in 1..Len(values) : IsYesAnswer(values[i])})

\* A Map: its keys in insertion order and its values
EmptyMap == [keys |-> <<>>, val |-> <<>>]
MapHas(map, k) == \E i \in 1..Len(map.keys) : map.keys[i] = k
MapGet(map, k) == map.val[CHOOSE i \in 1..Len(map.keys) : map.keys[i] = k]
MapSet(map, k, v) ==
    IF MapHas(map, k)
    THEN [keys |-> map.keys,
          val |-> [i \in 1..Len(map.keys) |->
                      IF map.keys[i] = k THEN v ELSE map.val[i]]]
    ELSE [keys |-> Append(map.keys, k), val |-> Append(map.val, v)]

\* faulty variant of OptionScore: every option scored by its index
OptionScore_IndexOnly(opt, idx) == idx

\* the value buildOptionScoreMap stores for option opt at zero-based index idx
OptionScore(opt, idx) ==
    LET m == matchNumericPrefix(opt)
    IN  IF m.matched THEN DigitsToNumber(m.digits) ELSE idx

\* opts.forEach((opt, idx) => map.set(opt, ...)) over the first n options.
\* answerOptions is [{ type: String }]: every element is a string.
RECURSIVE SetOptions(_, _)
SetOptions(opts, n) ==
    IF n = 0 THEN EmptyMap
    ELSE MapSet(SetOptions(opts, n - 1), opts[n], OptionScore(opts[n], n - 1))

buildOptionScoreMap(opts) == SetOptions(opts, Len(opts))

\* faulty variant of OptionContribution: no exact lookup before the case-insensitive one
OptionContribution_NoExactMatch(map, val) ==
    IF val.type # "string" THEN 0
    ELSE LET hits == {i \in 1..Len(map.keys) :
                        toLowerCase(map.keys[i]) = toLowerCase(val.str)}
         IN  IF hits = {} THEN 0 ELSE map.val[Min(hits)]

\* one step of the multi-choice reduce: what val adds to sum
OptionContribution(map, val) ==
    IF val.type # "string" THEN 0
    ELSE IF MapHas(map, val.str) THEN MapGet(map, val.str)
    ELSE LET hits == {i \in 1..Len(map.keys) :
                        toLowerCase(map.keys[i]) = toLowerCase(val.str)}
         IN  IF hits = {} THEN 0
             ELSE LET found == map.keys[Min(hits)]
                  IN  IF Len(found) > 0 THEN MapGet(map, found) ELSE 0

\* faulty variant of NumericContribution: only raw numbers are added, strings are not parsed
NumericContribution_NumbersOnly(v) == IF v.type = "number" THEN v.num ELSE 0

\* faulty variant of OptionContributionThrows: no typeof test before val.toLowerCase()
OptionContributionThrows_NoTypeofTest(map, val) ==
    Len(map.keys) > 0 /\ toLowerCaseThrows(val)

\* one step of the multi-choice reduce raises: val.toLowerCase() is reached
\* by strings only (if (typeof val !== 'string') return sum)
OptionContributionThrows(map, val) ==
    val.type = "string" /\ ~MapHas(map, val.str)
        /\ Len(map.keys) > 0 /\ toLowerCaseThrows(val)

\* one step of the numeric reduce: what v adds to sum
NumericContribution(v) ==
    LET n == ToNumber(v)
    IN  IF n.finite THEN n.val ELSE 0

RECURSIVE SumOptions(_, _, _)
SumOptions(map, values, n) ==
    IF n = 0 THEN 0
    ELSE SumOptions(map, values, n - 1) + OptionContribution(map, values[n])

RECURSIVE SumNumeric(_, _)
SumNumeric(values, n) ==
    IF n = 0 THEN 0
    ELSE SumNumeric(values, n - 1) + NumericContribution(values[n])

\* faulty variant of ScoringBranch: the yes/no count is chosen as soon as some
\* answer is yes/no
ScoringBranch_AnyYesNo(values, q) ==
    IF Len(values) = 0 \/ \E i \in 1..Len(values) : IsYesNoAnswer(values[i])
    THEN "yesno"
    ELSE IF Len(q.answerOptions) > 0 THEN "options"
    ELSE "numeric"

\* faulty variant of ScoringBranch: the encoding is detected on the first answer alone
ScoringBranch_FirstAnswer(values, q) ==
    IF Len(values) = 0 \/ IsYesNoAnswer(values[1]) THEN "yesno"
    ELSE IF Len(q.answerOptions) > 0 THEN "options"
    ELSE "numeric"

\* which branch of the if / else if / else computes totalScore
ScoringBranch(values, q) ==
    IF \A i \in 1..Len(values) : IsYesNoAnswer(values[i]) THEN "yesno"
    ELSE IF Len(q.answerOptions) > 0 THEN "options"
    ELSE "numeric"

TotalScore(values, q) ==
    CASE ScoringBranch(values, q) = "yesno" -> CountYes(values)
      [] ScoringBranch(values, q) = "options" ->
            SumOptions(buildOptionScoreMap(q.answerOptions), values, Len(values))
      [] OTHER -> SumNumeric(values, Len(values))

\* the call raises a TypeError: in every() (which stops at the first value
\* failing the test), in filter(), or in the multi-choice reduce.  Number(v)
\* raises for no value a JSON body can hold.
computeScoreThrows(values, q) ==
    \/ \E i \in 1..Len(values) :
          /\ IsYesNoAnswerThrows(values[i])
          /\ \A j \in 1..(i - 1) : IsYesNoAnswer(values[j])
    \/ /\ ScoringBranch(values, q) = "yesno"
       /\ \E i \in 1..Len(values) : IsYesAnswerThrows(values[i])
    \/ /\ ScoringBranch(values, q) = "options"
       /\ \E i \in 1..Len(values) :
             OptionContributionThrows(buildOptionScoreMap(q.answerOptions), values[i])

Undefined == [defined |-> FALSE, val |-> 0]
Defined(n) == [defined |-> TRUE, val |-> n]

\* faulty variant of InRange: no test for an undefined maxScore (totalScore <= undefined is false)
InRange_MaxRequired(totalScore, rule) ==
    totalScore >= rule.minScore
        /\ rule.maxScore.defined /\ totalScore <= rule.maxScore.val

\* const inRange = totalScore >= rule.minScore && (rule.maxScore === undefined || ...)
InRange(totalScore, rule) ==
    totalScore >= rule.minScore
        /\ (~rule.maxScore.defined \/ totalScore <= rule.maxScore.val)

\* faulty variant of RuleLoop: no break, the last rule in range decides
RECURSIVE RuleLoop_LastMatch(_, _, _, _)
RuleLoop_LastMatch(totalScore, rules, i, risk) ==
    IF i > Len(rules) THEN risk
    ELSE RuleLoop_LastMatch(totalScore, rules, i + 1,
            IF totalScore >= rules[i].minScore
                /\ (~rules[i].maxScore.defined \/ totalScore <= rules[i].maxScore.val)
            THEN rules[i].riskLevel ELSE risk)

\* for (const rule of scoringRules) { if (inRange) { risk = rule.riskLevel; break; } }
\* from rule i on, with risk the value the variable holds so far
RECURSIVE RuleLoop(_, _, _, _)
RuleLoop(totalScore, rules, i, risk) ==
    IF i > Len(rules) THEN risk
    ELSE IF InRange(totalScore, rules[i]) THEN rules[i].riskLevel
    ELSE RuleLoop(totalScore, rules, i + 1, risk)

\* faulty variant of FallbackRisk: Medium ends below 6 (totalScore < 6)
FallbackRisk_OffByOne(totalScore) ==
    IF totalScore >= 3 /\ totalScore < 6 THEN "Medium"
    ELSE IF totalScore > 6 THEN "High"
    ELSE "Low"

\* faulty variant of FallbackRisk: Medium has no lower threshold
FallbackRisk_NoLowerBound(totalScore) ==
    IF totalScore <= 6 THEN "Medium"
    ELSE IF totalScore > 6 THEN "High"
    ELSE "Low"

\* the generic fallback thresholds of the else branch
FallbackRisk(totalScore) ==
    IF totalScore >= 3 /\ totalScore <= 6 THEN "Medium"
    ELSE IF totalScore > 6 THEN "High"
    ELSE "Low"

RiskOf(totalScore, q) ==
    IF Len(q.scoringRules) > 0
    THEN RuleLoop(totalScore, q.scoringRules, 1, "Low")
    ELSE FallbackRisk(totalScore)

computeScore(values, q) ==
    [score |-> TotalScore(values, q), risk |-> RiskOf(TotalScore(values, q), q)]

-----------------------------------------------------------------------------
(* The earlier revisions of the scoring function *)

\* (b || 0)
OrZero(b) == IF Truthy(b) THEN b ELSE JsNumber(0)

\* a + n for JavaScript numbers: NaN if either is NaN
JsAdd(a, n) == IF a.finite /\ n.finite THEN Finite(a.val + n.val) ELSE NaN

\* Object.values(answers).reduce((a, b) => a + Number(b || 0), 0) over the
\* first n values
RECURSIVE MchatSum(_, _)
MchatSum(values, n) ==
    IF n = 0 THEN Finite(0)
    ELSE JsAdd(MchatSum(values, n - 1), ToNumber(OrZero(values[n])))

\* the thresholds of computeMchatScore; every comparison with NaN is false
MchatRisk(score) ==
    IF score.finite /\ score.val >= 3 /\ score.val <= 6 THEN "Medium"
    ELSE IF score.finite /\ score.val > 6 THEN "High"
    ELSE "Low"

\* computeMchatScore(answers): the scoring function that takes no questionnaire
computeMchatScore(values) ==
    LET score == MchatSum(values, Len(values))
    IN  [score |-> score.val, scoreIsNaN |-> ~score.finite, risk |-> MchatRisk(score)]

\* the earlier computeScore(answers, questionnaire): the count of the values
\* that are exactly 'yes', the risk as in the current revision
computeScoreLegacy(values, q) ==
    LET yesCount == Cardinality({i \in 1..Len(values) : values[i] = JsString(YES)})
    IN  [score |-> yesCount, scoreIsNaN |-> FALSE, risk |-> RiskOf(yesCount, q)]

-----------------------------------------------------------------------------
(* The strings the inputs are drawn from *)

Str_Yes == <<"Y","e","s">>
Str_YES == <<"Y","E","S">>
Str_No == <<"N","o">>
Str_NO == <<"N","O">>
Str_2Often == <<"2"," ","O","f","t","e","n">>
Str_0Never == <<"0"," ","N","e","v","e","r">>
Str_1Sometimes == <<"1"," ","S","o","m","e","t","i","m","e","s">>
Str_10Always == <<"1","0"," ","A","l","w","a","y","s">>
Str_Low == <<"L","o","w">>
Str_Medium == <<"M","e","d","i","u","m">>
Str_High == <<"H","i","g","h">>
Str_high == <<"h","i","g","h">>
Str_HIGH == <<"H","I","G","H">>
Str_3 == <<"3">>
Str_Minus2 == <<"-","2">>
Str_Pad4 == <<" ","4"," ">>
Str_maybe == <<"m","a","y","b","e">>
Str_10 == <<"1","0">>
Str_Pad5Rare == <<" ","5"," ","R","a","r","e">>
Str_Minus1Never == <<"-","1"," ","N","e","v","e","r">>

\* answer values of a submission: yes/no in every spelling the yes/no test
\* accepts, the empty string, option labels, numeric strings, other text, null
\* and a raw number
AnswerPool ==
    {JsString(s) : s \in {YES, Str_Yes, Str_YES, NO, Str_No, Str_NO, <<>>,
                          Str_2Often, Str_high, Str_High, Str_3, Str_Minus2,
                          Str_Pad4, Str_maybe}}
        \cup {JsNull, JsNumber(2)}

\* answer values of mixed type: null, undefined, booleans, a nested object, an
\* array, raw numbers and strings
MixedPool ==
    {JsNull, JsUndefined, JsBool(TRUE), JsBool(FALSE), JsObject, JsArray(Str_3),
     JsNumber(0), JsNumber(2)}
        \cup {JsString(s) : s \in {YES, Str_No, <<>>, Str_2Often, Str_3, Str_maybe}}

\* answer values of the runs of the earlier revisions
LegacyPool ==
    {JsString(YES), JsString(NO), JsString(Str_Yes), JsString(Str_3),
     JsString(<<>>), JsNumber(2), JsNull}

\* answerOptions lists of the scoring runs
ScoreOptionLists ==
    { <<>>,
      <<Str_0Never, Str_1Sometimes, Str_2Often>>,
      <<Str_Low, Str_Medium, Str_High>>,
      <<Str_Yes, NO>>,
      <<Str_HIGH, Str_High, Str_10Always>> }

\* option strings of the decode-table runs: numeric prefixes (one with leading
\* white space), plain labels (two differing in case only), digits with no
\* white space after them, a signed number (no match of \d+ at its start)
OptionPool ==
    {Str_2Often, Str_10Always, Str_Pad5Rare, Str_Low, Str_Medium, Str_High,
     Str_HIGH, Str_10, Str_Minus1Never}

\* answers of the decode-table runs
OptionAnswerPool ==
    {JsString(s) : s \in {Str_2Often, Str_10Always, Str_Low, Str_High,
                          Str_high, Str_10, Str_maybe}}

Rule(min, max, level) == [minScore |-> min, maxScore |-> max, riskLevel |-> level]

\* scoring rules: the three bands of an M-CHAT style questionnaire, and rules
\* that overlap them or leave gaps
RuleLow == Rule(0, Defined(2), "Low")
RuleMedium == Rule(3, Defined(6), "Medium")
RuleHighOpen == Rule(7, Undefined, "High")
RuleAnyOpen == Rule(0, Undefined, "Moderate")
RuleOverlap == Rule(2, Defined(4), "High")
RuleTop == Rule(8, Defined(9), "Medium")
RulePool == {RuleLow, RuleMedium, RuleHighOpen, RuleAnyOpen, RuleOverlap, RuleTop}

MChatRules == <<RuleLow, RuleMedium, RuleHighOpen>>

Questionnaire(opts, rules) == [answerOptions |-> opts, scoringRules |-> rules]

-----------------------------------------------------------------------------
(* The state machine: a call of computeScore on a submission *)

NoResult == [score |-> 0, risk |-> "none"]
NoRequest == [route |-> "none"]
NoResponse == [status |-> 0, error |-> ""]
NoSession == [status |-> "none"]
NoAddCall == [pc |-> "none"]

\* nothing stored, no request served, no game started
InitStore ==
    /\ questionnaires = {}
    /\ assessments = <<>>
    /\ reports = <<>>
    /\ request = NoRequest
    /\ response = NoResponse
    /\ session = NoSession
    /\ children = {}
    /\ accessRequests = <<>>
    /\ calls = EmptyBag
    /\ addCall = NoAddCall

InitCall ==
    /\ pc = "call"
    /\ scoreMap = EmptyMap
    /\ result = NoResult
    /\ InitStore

\* scoring runs: many answer sets, a few questionnaires
InitScore ==
    /\ InitCall
    /\ answers \in SeqUpTo(AnswerPool, MaxAnswers)
    /\ questionnaire \in {Questionnaire(o, r) :
                              o \in ScoreOptionLists, r \in {<<>>, MChatRules}}

\* decode-table runs: many answerOptions lists, at most one answer
InitOptions ==
    /\ InitCall
    /\ answers \in SeqUpTo(OptionAnswerPool, 1)
    /\ questionnaire \in {Questionnaire(o, <<>>) : o \in SeqUpTo(OptionPool, MaxOptions)}

\* risk runs: many scoringRules lists, the score given by one raw number (or
\* by no answer at all)
InitRisk ==
    /\ InitCall
    /\ answers \in {<<>>} \cup {<<JsNumber(n)>> : n \in (0 - 1)..MaxRawScore}
    /\ questionnaire \in {Questionnaire(o, r) :
                              o \in {<<>>, <<Str_Low, Str_High>>},
                              r \in SeqUpTo(RulePool, MaxRules)}

\* mixed-type runs: answer values of every JSON type, a few questionnaires
InitMixed ==
    /\ InitCall
    /\ answers \in SeqUpTo(MixedPool, MaxAnswers)
    /\ questionnaire \in {Questionnaire(o, r) :
                              o \in {<<>>, <<Str_Yes, NO>>,
                                     <<Str_0Never, Str_1Sometimes, Str_2Often>>},
                              r \in {<<>>, MChatRules}}

\* const { score, risk } = computeScore(answers, questionnaire)
ComputeScore ==
    /\ pc = "call"
    /\ pc' = IF computeScoreThrows(answers, questionnaire) THEN "threw" ELSE "done"
    /\ result' = IF computeScoreThrows(answers, questionnaire)
                 THEN NoResult
                 ELSE computeScore(answers, questionnaire)
    /\ scoreMap' = IF ScoringBranch(answers, questionnaire) = "options"
                   THEN buildOptionScoreMap(questionnaire.answerOptions)
                   ELSE EmptyMap
    /\ UNCHANGED <<answers, questionnaire>>
    /\ UNCHANGED storeVars

Next == ComputeScore

\* runs of the earlier revisions of POST /add
InitLegacy ==
    /\ InitCall
    /\ answers \in SeqUpTo(LegacyPool, MaxLegacyAnswers)
    /\ questionnaire \in {Questionnaire(<<Str_Yes, NO>>, r) : r \in {<<>>, MChatRules}}

\* const { score, risk } = computeMchatScore(answers)
ComputeMchatScore ==
    /\ pc = "call"
    /\ pc' = "doneMchat"
    /\ result' = computeMchatScore(answers)
    /\ UNCHANGED <<answers, questionnaire, scoreMap>>
    /\ UNCHANGED storeVars

\* const { score, risk } = computeScore(answers, questionnaire), earlier revision
ComputeScoreLegacy ==
    /\ pc = "call"
    /\ pc' = "doneLegacy"
    /\ result' = computeScoreLegacy(answers, questionnaire)
    /\ UNCHANGED <<answers, questionnaire, scoreMap>>
    /\ UNCHANGED storeVars

NextLegacy == ComputeMchatScore \/ ComputeScoreLegacy

-----------------------------------------------------------------------------
(* The stored documents and the request handlers *)

User(id, role) == [id |-> id, role |-> role]
Caretaker == User("u1", "caretaker")
Doctor == User("d1", "doctor")
OtherDoctor == User("d2", "doctor")
Admin == User("adm", "admin")

\* a Child document: its caretaker and the doctors given access, in stored order
Child(id, caretakerId, doctors) ==
    [_id |-> id, caretakerId |-> caretakerId, authorizedDoctors |-> doctors]

\* the Child collection: one child, one doctor with approved access
Children == {Child("c1", "u1", <<"d1">>)}

\* the ids that cast to an ObjectId; findById rejects with a CastError for
\* any other string
IsObjectId(id) == id \in {"q1", "q404", "c1", "c404"}

HasId(coll, id) == \E d \in coll : d._id = id
findById(coll, id) == CHOOSE d \in coll : d._id = id

\* the doctors authorized for the child with this id
AuthorizedDoctors(coll, childId) == Range(findById(coll, childId).authorizedDoctors)

\* a Questionnaire document: the fields the handlers read
QuestionnaireDoc(id, opts, rules, questions) ==
    [_id |-> id, answerOptions |-> opts, scoringRules |-> rules, questions |-> questions]

StoredQuestionnaire ==
    QuestionnaireDoc("q1", <<Str_0Never, Str_1Sometimes, Str_2Often>>, MChatRules,
                     <<"k1", "k2", "k3">>)

\* the inputs of the requests
ChildIdInputs == {"c1", "c404"}
QuestionnaireIdInputs == {"q1", "q404", "not-an-id", ""}
SubmittedAnswers ==
    {<<JsString(Str_2Often), JsString(Str_2Often)>>, <<JsString(YES), JsString(NO)>>,
     <<JsString(Str_1Sometimes)>>}
LaterAnswers ==
    {<<JsString(Str_2Often), JsString(Str_2Often)>>, <<JsString(YES), JsString(NO)>>}
Absent == [defined |-> FALSE, val |-> <<>>]
Given(v) == [defined |-> TRUE, val |-> v]
UpdateBodies ==
    {[answerOptions |-> Absent, scoringRules |-> Given(<<RuleOverlap>>)],
     [answerOptions |-> Given(<<>>), scoringRules |-> Given(<<RuleOverlap>>)]}
Analyses == {[riskLevel |-> "Low"], [riskLevel |-> "High"]}

Response(status, error) == [status |-> status, error |-> error]

\* the latest request made no call of computeScore
NoScoringCall ==
    /\ pc' = "skipped"
    /\ answers' = <<>>
    /\ questionnaire' = Questionnaire(<<>>, <<>>)
    /\ scoreMap' = EmptyMap
    /\ result' = NoResult

\* where POST /add leaves its try block
AddOutcome(childId, questionnaireId, hasAnswers, body) ==
    IF childId = "" \/ questionnaireId = "" \/ ~hasAnswers THEN "missing fields"
    ELSE IF ~IsObjectId(questionnaireId) THEN "questionnaire cast error"
    ELSE IF ~HasId(questionnaires, questionnaireId) THEN "no questionnaire"
    ELSE IF computeScoreThrows(body, findById(questionnaires, questionnaireId))
    THEN "scoring threw"
    ELSE IF ~IsObjectId(childId) THEN "child cast error"
    ELSE IF ~HasId(children, childId) THEN "no child"
    ELSE "saved"

AddResponse(outcome) ==
    CASE outcome = "missing fields" ->
            Response(400, "childId, questionnaireId, and answers are required")
      [] outcome = "no questionnaire" -> Response(404, "Questionnaire not found")
      [] outcome = "no child" -> Response(404, "Child not found")
      [] outcome = "saved" -> Response(200, "")
      [] OTHER -> Response(500, "Error saving assessment")

\* new Assessment({ ... }): dates are left out of the documents of the model
NewAssessment(id, childId, caretakerId, q, body, r) ==
    [_id |-> id, childId |-> childId, caretakerId |-> caretakerId,
     questionnaireId |-> q._id, answers |-> body, score |-> r.score, risk |-> r.risk,
     progress |-> [completedQuestions |-> Len(body),
                   totalQuestions |-> Len(q.questions),
                   status |-> "completed"],
     llmAnalysis |-> "none", reviewedByDoctor |-> "none",
     gameAssessments |-> <<>>]

\* faulty variant of save: one assessment per child and questionnaire, a
\* re-submission overwrites it
save_Upsert(coll, doc) ==
    IF \E i \in 1..Len(coll) : coll[i].childId = doc.childId
                              /\ coll[i].questionnaireId = doc.questionnaireId
    THEN [i \in 1..Len(coll) |->
             IF coll[i].childId = doc.childId /\ coll[i].questionnaireId = doc.questionnaireId
             THEN [doc EXCEPT !._id = i]
             ELSE coll[i]]
    ELSE Append(coll, doc)

\* assessment.save() of a new document: an insert
save(coll, doc) == Append(coll, doc)

\* POST /api/assessments/add
AddAssessment(childId, questionnaireId, hasAnswers, body) ==
       LET outcome == AddOutcome(childId, questionnaireId, hasAnswers, body)
           called == outcome \in {"scoring threw", "child cast error", "no child", "saved"}
           q == findById(questionnaires, questionnaireId)
       IN  /\ outcome = "saved" => Len(assessments) < MaxAssessments
           /\ request' = [route |-> "add", user |-> Caretaker.id, childId |-> childId,
                           questionnaireId |-> questionnaireId,
                           hasAnswers |-> hasAnswers, answers |-> body]
           /\ response' = AddResponse(outcome)
           /\ IF called
              THEN /\ pc' = IF outcome = "scoring threw" THEN "threw" ELSE "done"
                   /\ answers' = body
                   /\ questionnaire' = q
                   /\ scoreMap' = IF ScoringBranch(body, q) = "options"
                                  THEN buildOptionScoreMap(q.answerOptions)
                                  ELSE EmptyMap
                   /\ result' = IF outcome = "scoring threw" THEN NoResult
                                 ELSE computeScore(body, q)
              ELSE NoScoringCall
           /\ assessments' =
                 IF outcome = "saved"
                 THEN save(assessments,
                           NewAssessment(Len(assessments) + 1, childId, Caretaker.id, q,
                                         body, computeScore(body, q)))
                 ELSE assessments
           /\ UNCHANGED <<questionnaires, reports, session, accessVars>>

\* faulty variant of Reviewed: the risk of the analysis replaces the stored risk
Reviewed_RiskFromAnalysis(assessment, analysis, userId) ==
    [assessment EXCEPT !.llmAnalysis = "generated", !.reviewedByDoctor = userId,
                       !.risk = analysis.riskLevel]

\* assessment.llmAnalysis = { ... }; assessment.reviewedByDoctor = req.user.id
Reviewed(assessment, analysis, userId) ==
    [assessment EXCEPT !.llmAnalysis = "generated", !.reviewedByDoctor = userId]

\* faulty variant of AnalyzeOutcome: the role is tested, the access is not
AnalyzeOutcome_RoleOnly(user, assessmentId) ==
    IF user.role # "doctor" /\ user.role # "admin" THEN "forbidden"
    ELSE IF assessmentId \notin 1..Len(assessments) THEN "no assessment"
    ELSE "analyzed"

AnalyzeOutcome(user, assessmentId) ==
    IF user.role # "doctor" /\ user.role # "admin" THEN "forbidden"
    ELSE IF assessmentId \notin 1..Len(assessments) THEN "no assessment"
    ELSE IF ~(\/ user.role = "admin"
              \/ user.id \in Range(findById(children, assessments[assessmentId].childId).authorizedDoctors))
    THEN "no access"
    ELSE "analyzed"

AnalyzeResponse(outcome) ==
    CASE outcome = "forbidden" -> Response(403, "Only doctors can request analysis")
      [] outcome = "no assessment" -> Response(404, "Assessment not found")
      [] outcome = "no access" ->
            Response(403, "You do not have access to this child's records")
      [] OTHER -> Response(200, "")

\* POST /api/assessments/:assessmentId/analyze
AnalyzeAssessment(user, assessmentId) ==
    \E analysis \in Analyses :
       LET outcome == AnalyzeOutcome(user, assessmentId)
       IN  /\ request' = [route |-> "analyze", user |-> user.id, assessmentId |-> assessmentId]
           /\ response' = AnalyzeResponse(outcome)
           /\ assessments' =
                 IF outcome = "analyzed"
                 THEN [assessments EXCEPT
                          ![assessmentId] = Reviewed(assessments[assessmentId], analysis, user.id)]
                 ELSE assessments
           /\ NoScoringCall
           /\ UNCHANGED <<questionnaires, reports, session, accessVars>>

ReportOutcome(user, assessmentId) ==
    IF user.role # "doctor" THEN "forbidden"
    ELSE IF assessmentId \notin 1..Len(assessments) THEN "no assessment"
    ELSE IF ~HasId(children, assessments[assessmentId].childId) THEN "no child"
    ELSE "generated"

ReportResponse(outcome) ==
    CASE outcome = "forbidden" -> Response(403, "Only doctors can generate reports")
      [] outcome = "no assessment" -> Response(404, "Assessment not found")
      [] outcome = "no child" -> Response(404, "Child not found")
      [] OTHER -> Response(200, "")

\* new Report({ ... }): the text and the analysis are left out
NewReport(doctorId, childId, assessmentId) ==
    [doctorId |-> doctorId, childId |-> childId, assessmentId |-> assessmentId]

\* POST /api/reports/generate-from-assessment
GenerateReport(user, assessmentId) ==
    \E analysis \in Analyses :
       LET outcome == ReportOutcome(user, assessmentId)
       IN  /\ outcome = "generated" => Len(reports) < MaxReports
           /\ request' = [route |-> "generate-from-assessment", user |-> user.id,
                           assessmentId |-> assessmentId]
           /\ response' = ReportResponse(outcome)
           /\ reports' =
                 IF outcome = "generated"
                 THEN Append(reports, NewReport(user.id, assessments[assessmentId].childId,
                                                assessmentId))
                 ELSE reports
           /\ assessments' =
                 IF outcome = "generated"
                 THEN [assessments EXCEPT
                          ![assessmentId] = Reviewed(assessments[assessmentId], analysis, user.id)]
                 ELSE assessments
           /\ NoScoringCall
           /\ UNCHANGED <<questionnaires, session, accessVars>>

\* if (answerOptions !== undefined) questionnaire.answerOptions = answerOptions; ...
Updated(q, body) ==
    [q EXCEPT !.answerOptions = IF body.answerOptions.defined
                                THEN body.answerOptions.val ELSE @,
              !.scoringRules = IF body.scoringRules.defined
                               THEN body.scoringRules.val ELSE @]

AdminOutcome(user, id) ==
    IF user.role # "admin" THEN "forbidden"
    ELSE IF ~HasId(questionnaires, id) THEN "no questionnaire"
    ELSE "ok"

AdminResponse(outcome) ==
    CASE outcome = "forbidden" -> Response(403, "Admin only")
      [] outcome = "no questionnaire" -> Response(404, "Questionnaire not found")
      [] OTHER -> Response(200, "")

\* PUT /api/questionnaires/:id
UpdateQuestionnaire(user, id, body) ==
       LET outcome == AdminOutcome(user, id)
       IN  /\ request' = [route |-> "questionnaire update", user |-> user.id, id |-> id]
           /\ response' = AdminResponse(outcome)
           /\ questionnaires' =
                 IF outcome = "ok"
                 THEN (questionnaires \ {findById(questionnaires, id)})
                         \cup {Updated(findById(questionnaires, id), body)}
                 ELSE questionnaires
           /\ NoScoringCall
           /\ UNCHANGED <<assessments, reports, session, accessVars>>

\* DELETE /api/questionnaires/:id
DeleteQuestionnaire(user, id) ==
       LET outcome == AdminOutcome(user, id)
       IN  /\ request' = [route |-> "questionnaire delete", user |-> user.id, id |-> id]
           /\ response' = AdminResponse(outcome)
           /\ questionnaires' =
                 IF outcome = "ok"
                 THEN questionnaires \ {findById(questionnaires, id)}
                 ELSE questionnaires
           /\ NoScoringCall
           /\ UNCHANGED <<assessments, reports, session, accessVars>>

\* one questionnaire stored, no assessment yet
InitSubmit ==
    /\ pc = "skipped"
    /\ answers = <<>>
    /\ questionnaire = Questionnaire(<<>>, <<>>)
    /\ scoreMap = EmptyMap
    /\ result = NoResult
    /\ questionnaires = {StoredQuestionnaire}
    /\ assessments = <<>>
    /\ reports = <<>>
    /\ request = NoRequest
    /\ response = NoResponse
    /\ session = NoSession
    /\ children = Children
    /\ accessRequests = <<>>
    /\ calls = EmptyBag
    /\ addCall = NoAddCall

\* submissions of every kind
NextSubmit ==
    \E childId \in ChildIdInputs, questionnaireId \in QuestionnaireIdInputs,
       hasAnswers \in BOOLEAN :
    \E body \in (IF hasAnswers THEN SubmittedAnswers ELSE {<<>>}) :
       AddAssessment(childId, questionnaireId, hasAnswers, body)

\* submissions and the operations that follow them
NextLifecycle ==
    \/ \E body \in LaterAnswers : AddAssessment("c1", "q1", TRUE, body)
    \/ \E user \in {Doctor, OtherDoctor}, assessmentId \in 1..MaxAssessments :
          AnalyzeAssessment(user, assessmentId)
    \/ \E user \in {Caretaker, Doctor} : GenerateReport(user, 1)
    \/ \E body \in UpdateBodies : UpdateQuestionnaire(Admin, "q1", body)
    \/ \E user \in {Caretaker, Admin} : DeleteQuestionnaire(user, "q1")

-----------------------------------------------------------------------------
(* The game sessions (memory game, hand-eye coordination game) *)

\* Math.round(num / den) for den > 0: the nearest integer, halves upwards
RoundDiv(num, den) == (2 * num + den) \div (2 * den)

\* times.reduce((a, b) => a + b)
RECURSIVE SumOf(_)
SumOf(s) == IF s = <<>> THEN 0 ELSE Head(s) + SumOf(Tail(s))

\* new GameSession({ ... }) with the defaults of gameSessionSchema
NewGameSession(gameType, difficulty, totalMatches) ==
    [_id |-> "s1", childId |-> "c1",
     status |-> "in-progress", gameType |-> gameType, difficulty |-> difficulty,
     score |-> 0, accuracy |-> 0, reactionTime |-> 0, totalMatches |-> totalMatches,
     correctMatches |-> 0, totalTime |-> 0, moves |-> 0, errorCount |-> 0,
     consistency |-> 0,
     gameDetails |-> [cardsFlipped |-> <<>>, matchedPairs |-> 0,
                      averageTimePerMove |-> [sum |-> 0, count |-> 0],
                      fastestMove |-> 0, slowestMove |-> 0]]

\* totalMatches: difficulty === 'easy' ? 10 : difficulty === 'medium' ? 15 : 20
HandEyeTargets(difficulty) ==
    IF difficulty = "easy" THEN 10 ELSE IF difficulty = "medium" THEN 15 ELSE 20

\* the times between consecutive flips, in milliseconds
FlipTimes(cardsFlipped) ==
    [i \in 1..(Len(cardsFlipped) - 1) |->
        cardsFlipped[i + 1].timestamp - cardsFlipped[i].timestamp]

\* .filter(t => t > 0)
PositiveTimes(times) == SelectSeq(times, LAMBDA x : x > 0)

\* the flip and hit handlers after the push: counters, reaction times, accuracy
Recorded(s, correct, now, isMemory) ==
    LET flipped == Append(s.gameDetails.cardsFlipped,
                          [cardIndex |-> Len(s.gameDetails.cardsFlipped),  \* the position
                           timestamp |-> now, correct |-> correct])
        times == PositiveTimes(FlipTimes(flipped))
        moves == s.moves + 1
        correctMatches == s.correctMatches + (IF correct THEN 1 ELSE 0)
        details == [s.gameDetails EXCEPT
                       !.cardsFlipped = flipped,
                       !.matchedPairs = IF correct /\ isMemory THEN @ + 1 ELSE @,
                       !.averageTimePerMove =
                           IF Len(times) > 0
                           THEN [sum |-> SumOf(times), count |-> Len(times)] ELSE @,
                       !.fastestMove = IF Len(times) > 0 THEN Min(Range(times)) ELSE @,
                       !.slowestMove = IF Len(times) > 0 THEN Max(Range(times)) ELSE @]
    IN  [s EXCEPT !.gameDetails = details,
                  !.correctMatches = correctMatches,
                  !.errorCount = IF correct THEN @ ELSE @ + 1,
                  !.moves = moves,
                  !.reactionTime = IF Len(times) > 0
                                   THEN RoundDiv(SumOf(times), Len(times)) ELSE @,
                  !.accuracy = RoundDiv(correctMatches * 100, moves)]

\* Math.max(0, 100 - Math.round(totalTime / 10))
MemorySpeedScore(totalTime) == Max({0, 100 - RoundDiv(totalTime, 10)})

\* Math.max(0, 100 - Math.round((moves / (totalMatches * 2)) * 100)): with
\* totalMatches 0 the quotient is Infinity (the maximum is then 0) or, for no
\* move at all, NaN
EfficiencyScore(moves, totalMatches) ==
    IF totalMatches = 0
    THEN (IF moves = 0 THEN NaN ELSE Finite(0))
    ELSE Finite(Max({0, 100 - RoundDiv(moves * 100, totalMatches * 2)}))

\* Math.round((accuracyScore + speedScore + efficiencyScore) / 3)
MemoryScore(s, totalTime) ==
    LET accuracyScore == s.accuracy
        speedScore == MemorySpeedScore(totalTime)
        efficiencyScore == EfficiencyScore(s.moves, s.totalMatches)
    IN  IF efficiencyScore.finite
        THEN Finite(RoundDiv(accuracyScore + speedScore + efficiencyScore.val, 3))
        ELSE NaN

\* averageAccuracy || session.accuracy || 0
HandEyeAccuracyScore(s, averageAccuracy) ==
    IF averageAccuracy.defined /\ averageAccuracy.val # 0
    THEN averageAccuracy.val ELSE s.accuracy

\* Math.max(0, 100 - Math.round(session.reactionTime / 20))
HandEyeSpeedScore(s) == Max({0, 100 - RoundDiv(s.reactionTime, 20)})

\* Math.round((session.correctMatches / session.totalMatches) * 100)
CompletionBonus(s) == RoundDiv(s.correctMatches * 100, s.totalMatches)

\* Math.round((accuracyScore + speedScore + completionBonus) / 3)
HandEyeScore(s, averageAccuracy) ==
    Finite(RoundDiv(HandEyeAccuracyScore(s, averageAccuracy) + HandEyeSpeedScore(s)
                       + CompletionBonus(s), 3))

\* Math.round(stdDev / 10) for the standard deviation of the times: the k with
\* (10k - 5)^2 <= variance < (10k + 5)^2, the variance being
\* (n * sum of squares - square of sum) / n^2
RoundedDeviation(times) ==
    LET n == Len(times)
        v == n * SumOf([i \in 1..n |-> times[i] * times[i]]) - SumOf(times) * SumOf(times)
    IN  CHOOSE k \in 0..Max(Range(times)) :
           /\ k > 0 => (10 * k - 5) * (10 * k - 5) * n * n <= v
           /\ v < (10 * k + 5) * (10 * k + 5) * n * n

\* session.consistency after the consistency block of the complete handlers
Consistency(s) ==
    IF Len(s.gameDetails.cardsFlipped) > 1
    THEN Max({0, 100 - RoundedDeviation(FlipTimes(s.gameDetails.cardsFlipped))})
    ELSE s.consistency

\* the session as the complete handlers save it
Completed(s, totalTime, score) ==
    [s EXCEPT !.status = "completed", !.totalTime = totalTime, !.score = score,
              !.consistency = Consistency(s)]

\* the inputs of the game requests
Difficulties == {"easy", "hard"}
SessionIds == {"s1", "s404"}
FlipDelays == {400, 2400}
TotalTimes == {0 - 3000, 45}
AverageAccuracies == {Undefined, Defined(150)}

\* the timestamp of the next flip: delay milliseconds after the latest one
Now(s, delay) ==
    IF Len(s.gameDetails.cardsFlipped) = 0 THEN 0
    ELSE s.gameDetails.cardsFlipped[Len(s.gameDetails.cardsFlipped)].timestamp + delay

SessionFound(sessionId) == sessionId = "s1" /\ session.status # "none"

SessionNotFound == Response(404, "Session not found")

\* POST /api/games/memory/start
StartMemory(difficulty) ==
    /\ session = NoSession
    /\ session' = NewGameSession("memory", difficulty, 0)
    /\ request' = [route |-> "memory start"]
    /\ response' = Response(200, "")
    /\ NoScoringCall
    /\ UNCHANGED <<questionnaires, assessments, reports, accessVars>>

\* POST /api/games/hand-eye/start
StartHandEye(difficulty) ==
    /\ session = NoSession
    /\ session' = NewGameSession("hand-coordination", difficulty, HandEyeTargets(difficulty))
    /\ request' = [route |-> "hand-eye start"]
    /\ response' = Response(200, "")
    /\ NoScoringCall
    /\ UNCHANGED <<questionnaires, assessments, reports, accessVars>>

\* POST /api/games/memory/flip
FlipCard(sessionId, isCorrect, delay) ==
    /\ SessionFound(sessionId) =>
          /\ session.gameType = "memory"
          /\ Len(session.gameDetails.cardsFlipped) < MaxFlips
    /\ session' = IF SessionFound(sessionId)
                   THEN Recorded(session, isCorrect, Now(session, delay), TRUE)
                   ELSE session
    /\ request' = [route |-> "memory flip"]
    /\ response' = IF SessionFound(sessionId) THEN Response(200, "") ELSE SessionNotFound
    /\ NoScoringCall
    /\ UNCHANGED <<questionnaires, assessments, reports, accessVars>>

\* POST /api/games/hand-eye/hit
HitTarget(sessionId, hitCenter, delay) ==
    /\ SessionFound(sessionId) =>
          /\ session.gameType = "hand-coordination"
          /\ Len(session.gameDetails.cardsFlipped) < MaxFlips
    /\ session' = IF SessionFound(sessionId)
                   THEN Recorded(session, hitCenter, Now(session, delay), FALSE)
                   ELSE session
    /\ request' = [route |-> "hand-eye hit"]
    /\ response' = IF SessionFound(sessionId) THEN Response(200, "") ELSE SessionNotFound
    /\ NoScoringCall
    /\ UNCHANGED <<questionnaires, assessments, reports, accessVars>>

\* the end of the complete handlers: a score of NaN does not cast to the
\* Number path, session.save() rejects and the catch answers 500
SaveCompleted(sessionId, totalTime, score) ==
    /\ session' = IF SessionFound(sessionId) /\ score.finite
                   THEN Completed(session, totalTime, score.val)
                   ELSE session
    /\ response' = IF ~SessionFound(sessionId) THEN SessionNotFound
                    ELSE IF score.finite THEN Response(200, "")
                    ELSE Response(500, "Cast to Number failed")

\* the entry that memory/complete pushes for session s
GameEntry(s) ==
    [gameType |-> "memory", gameSessionId |-> s._id, score |-> s.score,
     accuracy |-> s.accuracy, reactionTime |-> s.reactionTime, difficulty |-> s.difficulty]

\* the filter { childId: session.childId, 'gameAssessments.gameSessionId': session._id }
EntryOf(a, s) == {k \in 1..Len(a.gameAssessments) : a.gameAssessments[k].gameSessionId = s._id}
MatchesEntryFilter(a, s) == a.childId = s.childId /\ EntryOf(a, s) # {}

\* $set of 'gameAssessments.$.score', '.accuracy', '.reactionTime': the first
\* matching entry of the first matching document
SetGameEntry(coll, s) ==
    LET i == Min({j \in 1..Len(coll) : MatchesEntryFilter(coll[j], s)})
        k == Min(EntryOf(coll[i], s))
    IN  [coll EXCEPT ![i].gameAssessments[k].score = s.score,
                     ![i].gameAssessments[k].accuracy = s.accuracy,
                     ![i].gameAssessments[k].reactionTime = s.reactionTime]

\* Assessment.findByIdAndUpdate(id, { $push: { gameAssessments: entry } }):
\* the document whose _id is id, none inserted when there is none; ids are
\* compared as the strings they print as
PushGameEntry(coll, id, entry) ==
    [i \in 1..Len(coll) |->
        IF ToString(coll[i]._id) = id
        THEN [coll[i] EXCEPT !.gameAssessments = Append(@, entry)]
        ELSE coll[i]]

\* "Create or update assessment based on game score": the update, and the
\* push under the id session.childId when the update found no document.  The
\* documents are given the path gameAssessments that both operations name
\* (AssessmentSchema does not declare it).
GameAssessmentsUpdated(coll, s) ==
    IF \E j \in 1..Len(coll) : MatchesEntryFilter(coll[j], s)
    THEN SetGameEntry(coll, s)
    ELSE PushGameEntry(coll, s.childId, GameEntry(s))

\* POST /api/games/memory/complete
CompleteMemory(sessionId, totalTime) ==
    /\ SessionFound(sessionId) => session.gameType = "memory"
    /\ SaveCompleted(sessionId, totalTime,
                     IF SessionFound(sessionId) THEN MemoryScore(session, totalTime) ELSE NaN)
    /\ assessments' = IF response'.status = 200
                       THEN GameAssessmentsUpdated(assessments, session')
                       ELSE assessments
    /\ request' = [route |-> "memory complete"]
    /\ NoScoringCall
    /\ UNCHANGED <<questionnaires, reports, accessVars>>

\* POST /api/games/hand-eye/complete
CompleteHandEye(sessionId, totalTime, averageAccuracy) ==
    /\ SessionFound(sessionId) => session.gameType = "hand-coordination"
    /\ SaveCompleted(sessionId, totalTime,
                     IF SessionFound(sessionId) THEN HandEyeScore(session, averageAccuracy)
                     ELSE NaN)
    /\ request' = [route |-> "hand-eye complete"]
    /\ NoScoringCall
    /\ UNCHANGED <<questionnaires, assessments, reports, accessVars>>

\* no game started yet
InitGame ==
    /\ pc = "skipped"
    /\ answers = <<>>
    /\ questionnaire = Questionnaire(<<>>, <<>>)
    /\ scoreMap = EmptyMap
    /\ result = NoResult
    /\ InitStore

NextGame ==
    \/ \E difficulty \in Difficulties : StartMemory(difficulty)
    \/ \E difficulty \in Difficulties : StartHandEye(difficulty)
    \/ \E sessionId \in SessionIds, isCorrect \in BOOLEAN, delay \in FlipDelays :
          FlipCard(sessionId, isCorrect, delay)
    \/ \E sessionId \in SessionIds, hitCenter \in BOOLEAN, delay \in FlipDelays :
          HitTarget(sessionId, hitCenter, delay)
    \/ \E sessionId \in SessionIds, totalTime \in TotalTimes :
          CompleteMemory(sessionId, totalTime)
    \/ \E sessionId \in SessionIds, totalTime \in TotalTimes,
          averageAccuracy \in AverageAccuracies :
          CompleteHandEye(sessionId, totalTime, averageAccuracy)

\* an assessment of the child, as POST /add stored it
StoredAssessment ==
    NewAssessment(1, "c1", "u1", StoredQuestionnaire, <<JsString(YES), JsString(NO)>>,
                  computeScore(<<JsString(YES), JsString(NO)>>, StoredQuestionnaire))

-----------------------------------------------------------------------------
(* The access routes: a doctor's requests for access to a child, the        *)
(* caretaker's responses, direct grants and revocations.  A handler runs    *)
(* from one await of a database operation to the next in one step; between  *)
(* two steps of a call the steps of other calls may run.  The variables     *)
(* request and response hold the request that was answered by the latest    *)
(* step and its response; they are empty after a step that answered none.   *)

OtherCaretaker == User("u2", "caretaker")

\* the doctors registered as users: User.findOne({ email, role: 'doctor' })
Doctors == {"d1"}

\* new AccessRequest({ doctorId, childId, caretakerId, message })
AccessRequestDoc(id, doctorId, childId, caretakerId) ==
    [_id |-> id, doctorId |-> doctorId, childId |-> childId, caretakerId |-> caretakerId,
     status |-> "pending"]

\* one more handler may be in flight
MayStart == BagCardinality(calls) < MaxCalls

\* the handler stops at an await, to resume later
Suspended(call) == calls (+) SetToBag({call})

\* the handler resumed and ran to its response
Finished(call) == calls (-) SetToBag({call})

\* what the access routes never touch
AccessFrame ==
    /\ NoScoringCall
    /\ UNCHANGED <<questionnaires, assessments, reports, session, addCall>>

\* AccessRequest.findOne({ doctorId, childId, status: { $in: ['pending', 'approved'] } })
ActiveRequests(doctorId, childId) ==
    {i \in 1..Len(accessRequests) :
        /\ accessRequests[i].doctorId = doctorId
        /\ accessRequests[i].childId = childId
        /\ accessRequests[i].status \in {"pending", "approved"}}

RequestOutcome(user, childId) ==
    IF user.role # "doctor" THEN "forbidden"
    ELSE IF ~HasId(children, childId) THEN "no child"
    ELSE IF ActiveRequests(user.id, childId) = {} THEN "save"
    ELSE IF accessRequests[Min(ActiveRequests(user.id, childId))].status = "approved"
    THEN "has access"
    ELSE "pending exists"

RequestResponse(outcome) ==
    CASE outcome = "forbidden" -> Response(403, "Only doctors can request access")
      [] outcome = "no child" -> Response(404, "Child not found")
      [] outcome = "has access" ->
            Response(400, "You already have access to this child profile")
      [] outcome = "pending exists" ->
            Response(400, "A pending request already exists for this child")
      [] OTHER -> NoResponse

\* the AccessRequest documents that calls in flight are about to insert
RequestsInFlight ==
    BagCardinality([call \in {c \in BagToSet(calls) : c.route = "access request"} |->
                       calls[call]])

\* POST /api/access/request, up to the result of AccessRequest.findOne
RequestAccess(user, childId) ==
    LET outcome == RequestOutcome(user, childId)
    IN  /\ outcome = "save" =>
              /\ MayStart
              /\ Len(accessRequests) + RequestsInFlight < MaxRequests
        /\ request' = IF outcome = "save" THEN NoRequest
                      ELSE [route |-> "access request", user |-> user.id,
                            childId |-> childId]
        /\ response' = RequestResponse(outcome)
        /\ calls' = IF outcome = "save"
                    THEN Suspended([route |-> "access request", pc |-> "save",
                                    doctorId |-> user.id, childId |-> childId,
                                    caretakerId |-> findById(children, childId).caretakerId])
                    ELSE calls
        /\ UNCHANGED <<children, accessRequests>>
        /\ AccessFrame

\* POST /api/access/request, from accessRequest.save() to the response
SaveAccessRequest(call) ==
        /\ call.route = "access request"
        /\ accessRequests' =
              Append(accessRequests,
                     AccessRequestDoc(Len(accessRequests) + 1, call.doctorId, call.childId,
                                      call.caretakerId))
        /\ request' = [route |-> "access request", user |-> call.doctorId,
                       childId |-> call.childId]
        /\ response' = Response(200, "")
        /\ calls' = Finished(call)
        /\ UNCHANGED children
        /\ AccessFrame

RespondOutcome(user, requestId, status) ==
    IF status \notin {"approved", "denied"} THEN "invalid status"
    ELSE IF requestId \notin 1..Len(accessRequests) THEN "no request"
    ELSE IF accessRequests[requestId].caretakerId # user.id THEN "not authorized"
    ELSE IF accessRequests[requestId].status # "pending" THEN "responded"
    ELSE "save"

RespondResponse(outcome) ==
    CASE outcome = "invalid status" ->
            Response(400, "Invalid status. Must be approved or denied")
      [] outcome = "no request" -> Response(404, "Access request not found")
      [] outcome = "not authorized" ->
            Response(403, "Not authorized to respond to this request")
      [] outcome = "responded" ->
            Response(400, "This request has already been responded to")
      [] OTHER -> NoResponse

RespondRequest(userId, requestId, status) ==
    [route |-> "respond", user |-> userId, requestId |-> requestId, status |-> status]

\* PUT /api/access/:requestId/respond, up to the tests on the request found
RespondToRequest(user, requestId, status) ==
    LET outcome == RespondOutcome(user, requestId, status)
    IN  /\ outcome = "save" => MayStart
        /\ request' = IF outcome = "save" THEN NoRequest
                      ELSE RespondRequest(user.id, requestId, status)
        /\ response' = RespondResponse(outcome)
        /\ calls' = IF outcome = "save"
                    THEN Suspended([route |-> "respond", pc |-> "save", user |-> user.id,
                                    requestId |-> requestId, status |-> status])
                    ELSE calls
        /\ UNCHANGED <<children, accessRequests>>
        /\ AccessFrame

\* request.status = status; await request.save(): the denied branch answers,
\* the approved branch goes on to the update of the child
SaveRespondedRequest(call) ==
        /\ call.route = "respond" /\ call.pc = "save"
        /\ accessRequests' = [accessRequests EXCEPT ![call.requestId].status = call.status]
        /\ request' = IF call.status = "approved" THEN NoRequest
                      ELSE RespondRequest(call.user, call.requestId, call.status)
        /\ response' = IF call.status = "approved" THEN NoResponse ELSE Response(200, "")
        /\ calls' = IF call.status = "approved"
                    THEN Finished(call) (+) SetToBag({[call EXCEPT !.pc = "update"]})
                    ELSE Finished(call)
        /\ UNCHANGED children
        /\ AccessFrame

\* { $addToSet: { authorizedDoctors: doctorId } }
addToSet(doctors, doctorId) ==
    IF doctorId \in Range(doctors) THEN doctors ELSE Append(doctors, doctorId)

\* faulty variant of WithDoctors: the child is left as it was
WithDoctors_Unchanged(coll, childId, doctors) == coll

\* the Child collection after an update of one child's authorizedDoctors
WithDoctors(coll, childId, doctors) ==
    {IF c._id = childId THEN [c EXCEPT !.authorizedDoctors = doctors] ELSE c : c \in coll}

\* Child.findByIdAndUpdate(request.childId, { $addToSet: ... }) and the response
AddAuthorizedDoctor(call) ==
    LET doc == accessRequests[call.requestId]
    IN  /\ call.route = "respond" /\ call.pc = "update"
        /\ children' =
              IF HasId(children, doc.childId)
              THEN WithDoctors(children, doc.childId,
                               addToSet(findById(children, doc.childId).authorizedDoctors,
                                        doc.doctorId))
              ELSE children
        /\ request' = RespondRequest(call.user, call.requestId, call.status)
        /\ response' = Response(200, "")
        /\ calls' = Finished(call)
        /\ UNCHANGED accessRequests
        /\ AccessFrame

\* the tests of grant and revoke on the child and its owner
OwnerOutcome(user, childId) ==
    IF ~HasId(children, childId) THEN "no child"
    ELSE IF findById(children, childId).caretakerId # user.id /\ user.role # "admin"
    THEN "not owner"
    ELSE "owner"

GrantOutcome(user, childId, doctorId) ==
    IF OwnerOutcome(user, childId) # "owner" THEN OwnerOutcome(user, childId)
    ELSE IF doctorId \notin Doctors THEN "no doctor"
    ELSE IF doctorId \in AuthorizedDoctors(children, childId) THEN "has access"
    ELSE "save"

GrantResponse(outcome) ==
    CASE outcome = "no child" -> Response(404, "Child not found")
      [] outcome = "not owner" -> Response(403, "You do not own this child profile")
      [] outcome = "no doctor" ->
            Response(404, "Doctor not found. Please verify the email address.")
      [] outcome = "has access" -> Response(400, "This doctor already has access")
      [] OTHER -> NoResponse

GrantRequest(route, userId, childId, doctorId) ==
    [route |-> route, user |-> userId, childId |-> childId, doctorId |-> doctorId]

\* POST /api/access/grant, up to the test on the child document it loaded
GrantAccess(user, childId, doctorId) ==
    LET outcome == GrantOutcome(user, childId, doctorId)
    IN  /\ outcome = "save" => MayStart
        /\ request' = IF outcome = "save" THEN NoRequest
                      ELSE GrantRequest("grant", user.id, childId, doctorId)
        /\ response' = GrantResponse(outcome)
        /\ calls' = IF outcome = "save"
                    THEN Suspended([route |-> "grant", pc |-> "save", user |-> user.id,
                                    childId |-> childId, doctorId |-> doctorId])
                    ELSE calls
        /\ UNCHANGED <<children, accessRequests>>
        /\ AccessFrame

\* a save of the child that raised its version: a revoke in flight that
\* loaded the child before it now holds an outdated version
Outdated(bag) ==
    LET Marked(c) == IF c.route = "revoke" THEN [c EXCEPT !.current = FALSE] ELSE c
    IN  [call \in {Marked(c) : c \in BagToSet(bag)} |->
            BagCardinality([c \in {b \in BagToSet(bag) : Marked(b) = call} |-> bag[c]])]

\* child.authorizedDoctors.push(doctor._id); await child.save(): Mongoose
\* sends the push of the one element, not the array it loaded
SaveGrantedChild(call) ==
        /\ call.route = "grant"
        /\ children' =
              IF HasId(children, call.childId)
              THEN WithDoctors(children, call.childId,
                               Append(findById(children, call.childId).authorizedDoctors,
                                      call.doctorId))
              ELSE children
        /\ request' = GrantRequest("grant", call.user, call.childId, call.doctorId)
        /\ response' = Response(200, "")
        /\ calls' = Outdated(Finished(call))
        /\ UNCHANGED accessRequests
        /\ AccessFrame

\* child.authorizedDoctors.filter(docId => docId.toString() !== doctorId)
Without(doctors, doctorId) == SelectSeq(doctors, LAMBDA d : d # doctorId)

\* POST /api/access/revoke, up to the child document it loaded
RevokeAccess(user, childId, doctorId) ==
    LET outcome == OwnerOutcome(user, childId)
    IN  /\ outcome = "owner" => MayStart
        /\ request' = IF outcome = "owner" THEN NoRequest
                      ELSE GrantRequest("revoke", user.id, childId, doctorId)
        /\ response' = GrantResponse(outcome)
        /\ calls' = IF outcome = "owner"
                    THEN Suspended([route |-> "revoke", pc |-> "save", user |-> user.id,
                                    childId |-> childId, doctorId |-> doctorId,
                                    doctors |-> Without(findById(children, childId)
                                                           .authorizedDoctors, doctorId),
                                    modified |-> doctorId \in AuthorizedDoctors(children, childId),
                                    current |-> TRUE])
                    ELSE calls
        /\ UNCHANGED <<children, accessRequests>>
        /\ AccessFrame

\* child.authorizedDoctors = <the filtered array>; await child.save(): an
\* array equal to the one loaded leaves the document unmodified and nothing
\* is written; otherwise the array is set as a whole under the version that
\* was loaded, and the save rejects with a VersionError when the stored
\* version is a later one
SaveRevokedChild(call) ==
        /\ call.route = "revoke"
        /\ children' = IF call.modified /\ call.current
                       THEN WithDoctors(children, call.childId, call.doctors)
                       ELSE children
        /\ request' = GrantRequest("revoke", call.user, call.childId, call.doctorId)
        /\ response' = IF call.modified /\ ~call.current THEN Response(500, "Server error")
                       ELSE Response(200, "")
        /\ calls' = IF call.modified /\ call.current THEN Outdated(Finished(call))
                    ELSE Finished(call)
        /\ UNCHANGED accessRequests
        /\ AccessFrame

\* the inputs of the access requests: who asks, and for which child; who
\* responds, and with which status
RequestInputs == {<<Doctor, "c1">>, <<Caretaker, "c1">>}
RespondInputs ==
    {<<Caretaker, requestId, status>> :
        requestId \in 1..MaxRequests, status \in {"approved", "denied"}}
    \cup {<<Caretaker, 1, "pending">>, <<OtherCaretaker, 1, "approved">>}

\* one child without authorized doctors, one assessment of it, no request yet
InitAccess ==
    /\ pc = "skipped"
    /\ answers = <<>>
    /\ questionnaire = Questionnaire(<<>>, <<>>)
    /\ scoreMap = EmptyMap
    /\ result = NoResult
    /\ questionnaires = {StoredQuestionnaire}
    /\ assessments = <<StoredAssessment>>
    /\ reports = <<>>
    /\ request = NoRequest
    /\ response = NoResponse
    /\ session = NoSession
    /\ children = {Child("c1", "u1", <<>>)}
    /\ accessRequests = <<>>
    /\ calls = EmptyBag
    /\ addCall = NoAddCall

\* the access routes
NextAccess ==
    \/ \E input \in RequestInputs : RequestAccess(input[1], input[2])
    \/ \E call \in BagToSet(calls) : SaveAccessRequest(call)
    \/ \E input \in RespondInputs : RespondToRequest(input[1], input[2], input[3])
    \/ \E call \in BagToSet(calls) : SaveRespondedRequest(call)
    \/ \E call \in BagToSet(calls) : AddAuthorizedDoctor(call)
    \/ GrantAccess(Caretaker, "c1", "d1")
    \/ \E call \in BagToSet(calls) : SaveGrantedChild(call)
    \/ RevokeAccess(Caretaker, "c1", "d1")
    \/ \E call \in BagToSet(calls) : SaveRevokedChild(call)

\* who asks for an analysis
ReviewUsers == {Doctor, OtherDoctor, Admin, Caretaker}

\* grants, approvals and revocations of access, and the analysis of the
\* child's assessment
NextReview ==
    \/ RequestAccess(Doctor, "c1")
    \/ \E call \in BagToSet(calls) : SaveAccessRequest(call)
    \/ RespondToRequest(Caretaker, 1, "approved")
    \/ \E call \in BagToSet(calls) : SaveRespondedRequest(call)
    \/ \E call \in BagToSet(calls) : AddAuthorizedDoctor(call)
    \/ GrantAccess(Caretaker, "c1", "d1")
    \/ \E call \in BagToSet(calls) : SaveGrantedChild(call)
    \/ RevokeAccess(Caretaker, "c1", "d1")
    \/ \E call \in BagToSet(calls) : SaveRevokedChild(call)
    \/ \E user \in ReviewUsers, assessmentId \in 1..MaxAssessments :
          AnalyzeAssessment(user, assessmentId)

-----------------------------------------------------------------------------
(* The earlier revision of POST /add that asks the LLM for an analysis while  *)
(* it saves the assessment, and waits for it for at most five seconds.        *)

\* new Assessment({ childId, caretakerId, type, answers, score, risk })
LegacyAssessment(childId, values, r) ==
    [childId |-> childId, caretakerId |-> "u1", type |-> "MCHAT", answers |-> values,
     score |-> r.score, scoreIsNaN |-> r.scoreIsNaN, risk |-> r.risk,
     llmAnalysis |-> "none"]

\* res.json(doc), or res.status(500).json({ error })
Sent(status, doc) ==
    [status |-> status, score |-> doc.score, risk |-> doc.risk,
     llmAnalysis |-> doc.llmAnalysis]

\* what the LLM-assisted POST /add never touches
LegacyAddFrame ==
    /\ NoScoringCall
    /\ UNCHANGED <<questionnaires, reports, request, response, session, children,
                   accessRequests, calls>>

\* POST /add up to await Child.findById(childId): the score is computed
StartLegacyAdd(childId, values) ==
    /\ addCall.pc = "none"
    /\ addCall' = [pc |-> "finding", analysisPromise |-> "none", timer |-> "unset",
                   assessment |-> LegacyAssessment(childId, values, computeMchatScore(values)),
                   responses |-> <<>>]
    /\ UNCHANGED assessments
    /\ LegacyAddFrame

\* await Child.findById(childId) settles: an id that does not cast rejects
\* and the outer catch answers 500; otherwise (a child or null) the document
\* is made, the analysis is started in the background and the save is started
ChildLooked ==
    /\ addCall.pc = "finding"
    /\ addCall' =
          IF IsObjectId(addCall.assessment.childId)
          THEN [addCall EXCEPT !.pc = "saving", !.analysisPromise = "pending"]
          ELSE [addCall EXCEPT !.pc = "done",
                               !.responses = Append(@, Sent(500, addCall.assessment))]
    /\ UNCHANGED assessments
    /\ LegacyAddFrame

\* await assessment.save() settles: a score of NaN does not cast to the
\* Number path, the save rejects and the outer catch answers 500; otherwise
\* the document is stored and the handler waits for the race
AssessmentSaved ==
    /\ addCall.pc = "saving"
    /\ IF addCall.assessment.scoreIsNaN
       THEN /\ addCall' = [addCall EXCEPT
                              !.pc = "done",
                              !.responses = Append(@, Sent(500, addCall.assessment))]
            /\ UNCHANGED assessments
       ELSE /\ addCall' = [addCall EXCEPT !.pc = "racing", !.timer = "armed"]
            /\ assessments' = Append(assessments, addCall.assessment)
    /\ LegacyAddFrame

\* analyzeAssessment settles.  It resolves with an analysis (from the LLM, or
\* the rule-based one it falls back to) and the then-callback stores it on the
\* document and saves it again: a save while the first one is in flight, or
\* of a document that failed validation, rejects.  Or it rejects (the
\* fallback threw).  Every rejection ends in the catch of the chain, so
\* analysisPromise resolves in every case.
AnalysisSettled(analysed) ==
    /\ addCall.pc \notin {"none", "finding"}
    /\ addCall.analysisPromise = "pending"
    /\ addCall' =
          IF ~analysed THEN [addCall EXCEPT !.analysisPromise = "resolved"]
          ELSE [addCall EXCEPT
                   !.assessment.llmAnalysis = "generated",
                   !.analysisPromise =
                       IF addCall.pc = "saving" \/ addCall.assessment.scoreIsNaN
                       THEN "resolved" ELSE "saving"]
    /\ UNCHANGED assessments
    /\ LegacyAddFrame

\* return assessment.save() of the then-callback settles
AnalysisSaved ==
    /\ addCall.pc # "none"
    /\ addCall.analysisPromise = "saving"
    /\ addCall' = [addCall EXCEPT !.analysisPromise = "resolved"]
    /\ assessments' = [assessments EXCEPT ![Len(assessments)].llmAnalysis = "generated"]
    /\ LegacyAddFrame

\* faulty variant of RaceSettled: a race that never counts as settled
RaceSettled_Never(call) == FALSE

\* Promise.race has settled: what its promises do later changes nothing
RaceSettled(call) == call.pc \in {"fetching", "done"}

\* the race resolves with analysisPromise; await Assessment.findById follows
AnalysisWon ==
    /\ addCall.pc = "racing"
    /\ addCall.analysisPromise = "resolved"
    /\ addCall' = [addCall EXCEPT !.pc = "fetching"]
    /\ UNCHANGED assessments
    /\ LegacyAddFrame

\* setTimeout(() => reject(new Error('Timeout')), 5000) fires: if the race is
\* still open it rejects, and the inner catch answers with the document the
\* handler holds
TimeoutFired ==
    /\ addCall.pc # "none"
    /\ addCall.timer = "armed"
    /\ addCall' =
          IF RaceSettled(addCall) THEN [addCall EXCEPT !.timer = "fired"]
          ELSE [addCall EXCEPT
                   !.timer = "fired", !.pc = "done",
                   !.responses = Append(@, Sent(200, addCall.assessment))]
    /\ UNCHANGED assessments
    /\ LegacyAddFrame

\* await Assessment.findById(assessment._id) settles: res.json of the stored
\* document, or, when it rejects, the inner catch and res.json of the
\* document the handler holds
AssessmentFetched(found) ==
    /\ addCall.pc = "fetching"
    /\ addCall' =
          [addCall EXCEPT
              !.pc = "done",
              !.responses =
                  Append(@, Sent(200, IF found THEN assessments[Len(assessments)]
                                      ELSE addCall.assessment))]
    /\ UNCHANGED assessments
    /\ LegacyAddFrame

\* the answers of the submissions: sums 2, 7 and 0, and a sum that is NaN
LegacyAddAnswers ==
    {<<JsNumber(2)>>, <<JsString(Str_3), JsNumber(2), JsNumber(2)>>, <<JsNull>>,
     <<JsString(YES), JsNumber(2)>>}

\* no request served yet
InitLegacyAdd ==
    /\ pc = "skipped"
    /\ answers = <<>>
    /\ questionnaire = Questionnaire(<<>>, <<>>)
    /\ scoreMap = EmptyMap
    /\ result = NoResult
    /\ InitStore

NextLegacyAdd ==
    \/ \E childId \in {"c1", "c404", "not-an-id"}, values \in LegacyAddAnswers :
          StartLegacyAdd(childId, values)
    \/ ChildLooked
    \/ AssessmentSaved
    \/ \E analysed \in BOOLEAN : AnalysisSettled(analysed)
    \/ AnalysisSaved
    \/ AnalysisWon
    \/ TimeoutFired
    \/ \E found \in BOOLEAN : AssessmentFetched(found)

\* no game started yet; the child has an assessment or none
InitMemory ==
    /\ pc = "skipped"
    /\ answers = <<>>
    /\ questionnaire = Questionnaire(<<>>, <<>>)
    /\ scoreMap = EmptyMap
    /\ result = NoResult
    /\ questionnaires = {StoredQuestionnaire}
    /\ assessments \in {<<>>, <<StoredAssessment>>}
    /\ reports = <<>>
    /\ request = NoRequest
    /\ response = NoResponse
    /\ session = NoSession
    /\ children = Children
    /\ accessRequests = <<>>
    /\ calls = EmptyBag
    /\ addCall = NoAddCall

\* the memory game, from start to completion
NextMemory ==
    \/ \E difficulty \in Difficulties : StartMemory(difficulty)
    \/ \E sessionId \in SessionIds, isCorrect \in BOOLEAN, delay \in FlipDelays :
          FlipCard(sessionId, isCorrect, delay)
    \/ \E sessionId \in SessionIds, totalTime \in TotalTimes :
          CompleteMemory(sessionId, totalTime)

SpecScore == InitScore /\ [][Next]_vars
SpecOptions == InitOptions /\ [][Next]_vars
SpecRisk == InitRisk /\ [][Next]_vars
SpecMixed == InitMixed /\ [][Next]_vars
SpecLegacy == InitLegacy /\ [][NextLegacy]_vars
SpecSubmit == InitSubmit /\ [][NextSubmit]_vars
SpecLifecycle == InitSubmit /\ [][NextLifecycle]_vars
SpecGame == InitGame /\ [][NextGame]_vars
SpecMemory == InitMemory /\ [][NextMemory]_vars
SpecAccess == InitAccess /\ [][NextAccess]_vars
SpecReview == InitAccess /\ [][NextReview]_vars
SpecLegacyAdd == InitLegacyAdd /\ [][NextLegacyAdd]_vars

-----------------------------------------------------------------------------
(* Vocabulary of the properties, written from their statements *)

YesSpellings == {<<a, b, c>> : a \in {"y", "Y"}, b \in {"e", "E"}, c \in {"s", "S"}}
NoSpellings == {<<a, b>> : a \in {"n", "N"}, b \in {"o", "O"}}

SaysYes(v) == v.type = "string" /\ v.str \in YesSpellings
SaysNo(v) == v.type = "string" /\ v.str \in NoSpellings
IsEmptyValue(v) == v.type = "null" \/ (v.type = "string" /\ v.str = <<>>)

AllYesNo == \A i \in 1..Len(answers) : SaysYes(answers[i]) \/ SaysNo(answers[i])
AllNonEmptyYesNo ==
    \A i \in 1..Len(answers) :
        IsEmptyValue(answers[i]) \/ SaysYes(answers[i]) \/ SaysNo(answers[i])
NumberOfYes == Cardinality({i \in 1..Len(answers) : SaysYes(answers[i])})

RECURSIVE SumSeq(_)
SumSeq(s) == IF s = <<>> THEN 0 ELSE Head(s) + SumSeq(Tail(s))

Returned == pc = "done"
Options == questionnaire.answerOptions
Rules == questionnaire.scoringRules

\* C1: when every answer value is "yes" or "no" in any letter case, the score
\* is the number of values that are "yes" in any letter case, whatever the
\* questionnaire's answerOptions are.
C1_BinaryScoreIsYesCount ==
    (Returned /\ AllYesNo) => result.score = NumberOfYes

\* C1 witness: "YES" and "no" scored against the options ["Yes", "no"], whose
\* decode table would give "YES" the value 0.
C1_Witness ==
    /\ Returned
    /\ answers = <<JsString(Str_YES), JsString(NO)>>
    /\ Options = <<Str_Yes, NO>>
    /\ result.score = 1

\* C2: when every non-empty answer value is "yes" or "no" in any letter case,
\* the score is the number of "yes" values, also when the set holds empty
\* values (empty string, null) besides them.
C2_EmptyValuesIgnored ==
    (Returned /\ AllNonEmptyYesNo) => result.score = NumberOfYes

\* An option string has a leading integer token followed by white space:
\* decimal digits at positions a..b, only white space before a, white space
\* at b+1.  (The token is a run of digits: a sign is no part of it.)
LeadingIntegerTokens(opt) ==
    {<<a, b>> \in (1..Len(opt)) \X (1..Len(opt)) :
        /\ a <= b
        /\ b < Len(opt)
        /\ \A k \in 1..(a - 1) : opt[k] \in WhiteSpace
        /\ \A k \in a..b : IsDigit(opt[k])
        /\ opt[b + 1] \in WhiteSpace}

\* the integer written in decimal at positions a..b of opt
RECURSIVE DecimalAt(_, _, _)
DecimalAt(opt, a, b) ==
    IF a > b THEN 0 ELSE DigitVal(opt[a]) * 10 ^ (b - a) + DecimalAt(opt, a + 1, b)

\* the decoded value of option string opt of the list opts: its leading
\* integer, else its zero-based position (that of its last occurrence, would
\* the list name it twice)
ExpectedDecode(opts, opt) ==
    IF LeadingIntegerTokens(opt) # {}
    THEN LET tok == CHOOSE tk \in LeadingIntegerTokens(opt) : TRUE
         IN  DecimalAt(opt, tok[1], tok[2])
    ELSE Max({i \in 1..Len(opts) : opts[i] = opt}) - 1

\* C3: in the decode table of a non-empty answerOptions list, an option that
\* starts with an integer token followed by white space decodes to that
\* integer, every other option to its zero-based position in the list.
C3_OptionDecodeTable ==
    (Returned /\ ~AllYesNo /\ Len(Options) > 0) =>
        \A i \in 1..Len(Options) :
            /\ MapHas(scoreMap, Options[i])
            /\ MapGet(scoreMap, Options[i]) = ExpectedDecode(Options, Options[i])

\* C3 witness: "10 Always" at index 1 decodes to 10, "High" at index 2 to 2.
C3_Witness ==
    /\ Returned
    /\ Options = <<Str_Low, Str_10Always, Str_High>>
    /\ answers = <<JsString(Str_High)>>
    /\ MapGet(scoreMap, Str_10Always) = 10
    /\ MapGet(scoreMap, Str_High) = 2
    /\ result.score = 2

EqualIgnoringCase(s, t) ==
    Len(s) = Len(t) /\ \A k \in 1..Len(s) : LowerChar(s[k]) = LowerChar(t[k])

\* what an answer value is worth against the options: the decoded value of
\* the option equal to it, else of the first option equal to it up to letter
\* case, else 0
ExpectedOptionValue(opts, v) ==
    IF v.type # "string" THEN 0
    ELSE IF \E i \in 1..Len(opts) : opts[i] = v.str
    THEN ExpectedDecode(opts, v.str)
    ELSE IF \E i \in 1..Len(opts) : EqualIgnoringCase(opts[i], v.str)
    THEN ExpectedDecode(opts,
            opts[Min({i \in 1..Len(opts) : EqualIgnoringCase(opts[i], v.str)})])
    ELSE 0

\* C4: when the answers are not all yes/no and answerOptions is non-empty,
\* each answer is looked up by exact match first, then by case-insensitive
\* match, an unmatched value adds 0, and the score is the sum of the decoded
\* values.
C4_MultiChoiceSum ==
    (Returned /\ ~AllYesNo /\ Len(Options) > 0) =>
        result.score =
            SumSeq([i \in 1..Len(answers) |-> ExpectedOptionValue(Options, answers[i])])

\* C4 witness: against ["HIGH", "High", "10 Always"], "High" matches exactly
\* (1) and "high" matches "HIGH" up to case (0).
C4_Witness ==
    /\ Returned
    /\ Options = <<Str_HIGH, Str_High, Str_10Always>>
    /\ answers = <<JsString(Str_High), JsString(Str_high)>>
    /\ result.score = 1

\* the number a value of AnswerPool parses to, 0 for those that parse to none
ExpectedNumber(v) ==
    CASE v.type = "number" -> v.num
      [] v = JsString(Str_3) -> 3
      [] v = JsString(Str_Minus2) -> 0 - 2
      [] v = JsString(Str_Pad4) -> 4
      [] v = JsBool(TRUE) -> 1
      [] v = JsArray(Str_3) -> 3
      [] OTHER -> 0

\* C5: when the answers are not all yes/no and the questionnaire has no
\* answerOptions, the score is the sum of the values parsed as numbers, a
\* value that parses to no number adding 0.
C5_RawNumericSum ==
    (Returned /\ ~AllYesNo /\ Len(Options) = 0) =>
        result.score = SumSeq([i \in 1..Len(answers) |-> ExpectedNumber(answers[i])])

\* C5 witness: " 4 " and "maybe" sum to 4.
C5_Witness ==
    /\ Returned
    /\ Options = <<>>
    /\ answers = <<JsString(Str_Pad4), JsString(Str_maybe)>>
    /\ result.score = 4

\* a rule covers a score: score >= minScore, and maxScore undefined or
\* score <= maxScore
RuleCovers(s, rule) ==
    s >= rule.minScore /\ (rule.maxScore = Undefined \/ s <= rule.maxScore.val)

CoveringRules(s) == {i \in 1..Len(Rules) : RuleCovers(s, Rules[i])}

\* the hardcoded thresholds: [3,6] Medium, above 6 High, otherwise Low
ExpectedFallback(s) ==
    CASE s \in 3..6 -> "Medium"
      [] s > 6 -> "High"
      [] OTHER -> "Low"

\* C6: the risk is the riskLevel of the first rule, in list order, that
\* covers the score, also when later rules cover it too.
C6_FirstMatchWins ==
    Returned =>
        \A i \in 1..Len(Rules) :
            (RuleCovers(result.score, Rules[i])
                /\ \A j \in 1..(i - 1) : ~RuleCovers(result.score, Rules[j]))
            => result.risk = Rules[i].riskLevel

\* C6 witness: score 2 is covered by all of 0..2 Low, 2..4 High and 0.. Moderate;
\* the first one decides.
C6_Witness ==
    /\ Returned
    /\ Rules = <<RuleLow, RuleOverlap, RuleAnyOpen>>
    /\ result.score = 2
    /\ result.risk = "Low"

\* C7: a rule without maxScore covers every score >= its minScore (it decides
\* the risk unless an earlier rule covers the score); with the rules
\* [0..2 Low, 3..6 Medium, 7.. High] a score >= 7 is High, 3..6 Medium, 0..2 Low.
C7_OpenEndedRule ==
    Returned =>
        /\ \A i \in 1..Len(Rules) :
              (/\ Rules[i].maxScore = Undefined
               /\ result.score >= Rules[i].minScore
               /\ \A j \in 1..(i - 1) : ~RuleCovers(result.score, Rules[j]))
              => result.risk = Rules[i].riskLevel
        /\ Rules = MChatRules =>
              /\ result.score >= 7 => result.risk = "High"
              /\ result.score \in 3..6 => result.risk = "Medium"
              /\ result.score \in 0..2 => result.risk = "Low"

\* C7 witness: score 8 under [0..2 Low, 3..6 Medium, 7.. High] is High.
C7_Witness ==
    /\ Returned
    /\ Rules = MChatRules
    /\ result.score = 8
    /\ result.risk = "High"

\* C8: when scoringRules is non-empty and no rule covers the score, the risk
\* is that of the hardcoded thresholds ([3,6] Medium, above 6 High, else Low).
C8_GapUsesFallback ==
    (Returned /\ Len(Rules) > 0 /\ CoveringRules(result.score) = {}) =>
        result.risk = ExpectedFallback(result.score)

\* C9: with no scoringRules the risk is Low below 3, Medium from 3 to 6 and
\* High above 6.
C9_NoRulesFallback ==
    (Returned /\ Len(Rules) = 0) =>
        /\ result.score < 3 => result.risk = "Low"
        /\ (result.score >= 3 /\ result.score <= 6) => result.risk = "Medium"
        /\ result.score > 6 => result.risk = "High"

\* C9 witness: no rules, score 6 (the upper edge of Medium).
C9_Witness ==
    /\ Returned
    /\ Rules = <<>>
    /\ result.score = 6
    /\ result.risk = "Medium"

\* C10: an empty answer set scores 0, and its risk is that of the first rule
\* covering 0, or Low when no rule covers 0.
C10_EmptyAnswerSet ==
    (Returned /\ answers = <<>>) =>
        /\ result.score = 0
        /\ result.risk = IF CoveringRules(0) # {}
                         THEN Rules[Min(CoveringRules(0))].riskLevel
                         ELSE "Low"

\* C10 witness: no answers, rules [3..6 Medium, 0.. Moderate]: the second rule
\* is the first that covers 0.
C10_Witness ==
    /\ Returned
    /\ answers = <<>>
    /\ Rules = <<RuleMedium, RuleAnyOpen>>
    /\ result = [score |-> 0, risk |-> "Moderate"]

RiskLevels == {"Low", "Medium", "Moderate", "High"}

IsAbsentValue(v) == v.type \in {"null", "undefined"}
PresentAnswers == SelectSeq(answers, LAMBDA v : ~IsAbsentValue(v))

\* C12: in whichever path the call takes, a null or undefined answer value
\* adds 0 and raises nothing: the score is the path's sum over the other
\* values.
C12_AbsentValueAddsZero ==
    /\ pc # "threw"
    /\ Returned =>
          result.score =
             IF AllYesNo THEN NumberOfYes
             ELSE IF Len(Options) > 0
             THEN SumSeq([i \in 1..Len(PresentAnswers) |->
                             ExpectedOptionValue(Options, PresentAnswers[i])])
             ELSE SumSeq([i \in 1..Len(PresentAnswers) |->
                             ExpectedNumber(PresentAnswers[i])])

\* C12 witness: null beside "2 Often", scored against the options: score 2.
C12_Witness ==
    /\ Returned
    /\ answers = <<JsNull, JsString(Str_2Often)>>
    /\ Options = <<Str_0Never, Str_1Sometimes, Str_2Often>>
    /\ result.score = 2

\* C13: the encoding is detected once for the whole set: when some answer is
\* not yes/no and answerOptions is non-empty, every answer, the yes/no ones
\* included, is scored through the decode table and none by the yes count.
C13_DetectionPerSet ==
    (/\ Returned
     /\ Len(Options) > 0
     /\ ~AllYesNo
     /\ \E i \in 1..Len(answers) : SaysYes(answers[i]) \/ SaysNo(answers[i]))
    => result.score =
          SumSeq([i \in 1..Len(answers) |-> ExpectedOptionValue(Options, answers[i])])

\* C13 witness: "yes" beside "2 Often" against ["0 Never", "1 Sometimes",
\* "2 Often"]: "yes" matches no option and adds 0, the score is 2 (not 3).
C13_Witness ==
    /\ Returned
    /\ answers = <<JsString(YES), JsString(Str_2Often)>>
    /\ Options = <<Str_0Never, Str_1Sometimes, Str_2Often>>
    /\ result.score = 2

\* C14: a yes/no answer set scored without a questionnaire definition
\* (computeMchatScore) gets the number of "yes" answers as its score and the
\* risk of the fallback thresholds: {yes, no, yes} gets score 2, risk Low.
C14_LegacyYesCount ==
    (pc = "doneMchat" /\ AllYesNo) =>
        /\ ~result.scoreIsNaN
        /\ result.score = NumberOfYes
        /\ result.risk = ExpectedFallback(NumberOfYes)

\* the answer values in every order
Reorderings(s) ==
    {[i \in 1..Len(s) |-> s[p[i]]] : p \in Permutations(1..Len(s))}

C17_UnresolvableQuestionnaire ==
    [][(/\ request'.route = "add"
        /\ request'.childId # ""
        /\ request'.hasAnswers
        /\ request'.questionnaireId # ""
        /\ ~HasId(questionnaires, request'.questionnaireId))
       => (/\ response' = Response(404, "Questionnaire not found")
           /\ pc' = "skipped"
           /\ assessments' = assessments)]_vars

\* C18: a submission answered 200 adds exactly one Assessment, with a new id
\* and the submitted child, questionnaire and answers, and leaves every
\* Assessment stored before as it was, also when the same answers were
\* already submitted for the same child and questionnaire.
C18_OneNewRecord ==
    [][(request'.route = "add" /\ response'.status = 200)
       => (/\ Len(assessments') = Len(assessments) + 1
           /\ \A i \in 1..Len(assessments) : assessments'[i] = assessments[i]
           /\ LET new == assessments'[Len(assessments')]
              IN  /\ new.childId = request'.childId
                  /\ new.questionnaireId = request'.questionnaireId
                  /\ new.answers = request'.answers
                  /\ \A i \in 1..Len(assessments) : assessments[i]._id # new._id)]_vars

\* the same answers stored twice for the same child and questionnaire
C18_Witness ==
    /\ Len(assessments) = 2
    /\ request.route = "add"
    /\ response.status = 200
    /\ assessments[1]._id # assessments[2]._id
    /\ assessments[1].childId = assessments[2].childId
    /\ assessments[1].questionnaireId = assessments[2].questionnaireId
    /\ assessments[1].answers = assessments[2].answers

\* the { score, risk } of a stored assessment
StoredResult(a) == [score |-> a.score, risk |-> a.risk]

\* C19: an Assessment is stored with the { score, risk } that computeScore
\* returns for its answers and the questionnaire as stored when it is
\* submitted, and no later request (analysis, report generation, update or
\* deletion of the questionnaire, a further submission) changes its answers,
\* score or risk, or removes it.
C19_StoredScoreFixed ==
    [][/\ Len(assessments') >= Len(assessments)
       /\ \A i \in 1..Len(assessments') :
             IF i <= Len(assessments)
             THEN /\ StoredResult(assessments'[i]) = StoredResult(assessments[i])
                  /\ assessments'[i].answers = assessments[i].answers
             ELSE /\ HasId(questionnaires, assessments'[i].questionnaireId)
                  /\ StoredResult(assessments'[i])
                        = computeScore(assessments'[i].answers,
                                       findById(questionnaires,
                                                assessments'[i].questionnaireId))]_vars

\* the first assessment was analysed and reported on, the questionnaire was
\* then updated, the same answers were submitted again and got another risk,
\* and the questionnaire was deleted
C19_Witness ==
    /\ Len(assessments) = 2
    /\ assessments[1].llmAnalysis = "generated"
    /\ Len(reports) > 0
    /\ assessments[1].answers = assessments[2].answers
    /\ assessments[1].risk # assessments[2].risk
    /\ ~HasId(questionnaires, "q1")

\* C20: the score stored on a completed game session (memory or hand-eye) is
\* a number from 0 to 100, whatever flips or hits were recorded and whatever
\* totalTime and averageAccuracy the client sent.
C20_FinalScoreInRange ==
    session.status = "completed" => session.score \in 0..100

\* C21: after a memory game session is completed, an Assessment document of
\* the session's child holds a gameAssessments entry for that session with
\* the session's score, accuracy and reaction time.
C21_GameAssessmentEntry ==
    (session.status = "completed" /\ session.gameType = "memory") =>
        \E i \in 1..Len(assessments) :
            /\ assessments[i].childId = session.childId
            /\ \E k \in 1..Len(assessments[i].gameAssessments) :
                  LET e == assessments[i].gameAssessments[k]
                  IN  /\ e.gameSessionId = session._id
                      /\ e.score = session.score
                      /\ e.accuracy = session.accuracy
                      /\ e.reactionTime = session.reactionTime

\* C22: an access request is created in status pending; its status changes
\* only from pending, to approved or to denied (so at most once); a respond
\* call that is rejected leaves the requests and the children's
\* authorizedDoctors unchanged.
C22_RequestLifecycle ==
    [][/\ Len(accessRequests') >= Len(accessRequests)
       /\ \A i \in 1..Len(accessRequests') :
             IF i > Len(accessRequests)
             THEN accessRequests'[i].status = "pending"
             ELSE accessRequests'[i].status # accessRequests[i].status =>
                     /\ accessRequests[i].status = "pending"
                     /\ accessRequests'[i].status \in {"approved", "denied"}
       /\ (request'.route = "respond" /\ response'.status \notin {0, 200}) =>
             /\ accessRequests' = accessRequests
             /\ children' = children]_vars

C24_OneActiveRequest ==
    \A i, j \in 1..Len(accessRequests) :
        (/\ accessRequests[i].doctorId = accessRequests[j].doctorId
         /\ accessRequests[i].childId = accessRequests[j].childId
         /\ accessRequests[i].status \in {"pending", "approved"}
         /\ accessRequests[j].status \in {"pending", "approved"}) => i = j

\* C25: no child's authorizedDoctors holds the same doctor twice, under every
\* interleaving of approvals, grants and revocations.
C25_NoDuplicateDoctor ==
    \A c \in children :
        \A i, j \in 1..Len(c.authorizedDoctors) :
            c.authorizedDoctors[i] = c.authorizedDoctors[j] => i = j

\* C26: when an access request is rejected with "You already have access to
\* this child profile", the doctor is among that child's authorizedDoctors.
C26_RejectedHasAccess ==
    (/\ request.route = "access request"
     /\ response = Response(400, "You already have access to this child profile"))
        => request.user \in AuthorizedDoctors(children, request.childId)

=============================================================================
